---- MODULE Spec2Model ----
(***************************************************************************)
(* Model of the revision history view of kuma/wiki/views/list.py:          *)
(* revisions() and its nested linker get_previous().                       *)
(*                                                                         *)
(* A Document owns a set of Revision rows; one request is handled by one   *)
(* action that runs the whole view: the current-revision check, the        *)
(* login gate of ?limit=all, the ordered and linked revision list, the     *)
(* pagination window and the translation-parent append.                    *)
(***************************************************************************)
EXTENDS Integers, Sequences, FiniteSets, TLC

\* ---------------------------------------------------------------- bounds
MaxRevs == 3       \* revisions of the document: pks 1..MaxRevs
MaxTime == 3       \* distinct values of Revision.created: 1..MaxTime

\* ------------------------------------------------------------- constants
None == 0                  \* Python None (no pk is 0)
DefaultLimit == 10         \* request.GET.get('limit', 10)
DOCUMENTS_PER_PAGE == 10   \* ..constants.DOCUMENTS_PER_PAGE: the default page size
ForeignPks == {100}        \* pks of revisions of the parent (source-language) document
ParentDoc == 1             \* id of the parent Document of a translation

VARIABLES document, request, response, walk
vars == <<document, request, response, walk>>

\* ------------------------------------------------------------ data model
Pks == 1..MaxRevs
Times == 1..MaxTime

\* A Revision row as the view reads it.
RevisionRows ==
    [pk : Pks, created : Times, is_approved : BOOLEAN,
     based_on : {None} \cup ForeignPks]

\* A revision object of the response: the row plus the transient annotation.
Annotated(row, prev) ==
    [pk |-> row.pk, created |-> row.created, is_approved |-> row.is_approved,
     based_on |-> row.based_on, previous_revision |-> prev]

\* The object behind a based_on foreign key: a revision of another document,
\* freshly loaded, so it carries no previous_revision annotation.
ForeignRevision(f) ==
    [pk |-> f, created |-> 0, is_approved |-> TRUE,
     based_on |-> None, previous_revision |-> None]

\* Documents: revisions is the set of rows of document.revisions (pks unique,
\* numbered from 1), current_revision and parent are nullable foreign keys.
\* Revision ids are assigned at creation and grow with it, so created never
\* decreases along the pks; equal created values (ties) are allowed.
RevisionTables ==
    UNION {[1..n -> [created : Times, is_approved : BOOLEAN,
                     based_on : {None} \cup ForeignPks]] : n \in 0..MaxRevs}

RowOf(t, i) ==
    [pk |-> i, created |-> t[i].created, is_approved |-> t[i].is_approved,
     based_on |-> t[i].based_on]

RevisionSets ==
    {{RowOf(t, i) : i \in DOMAIN t} :
        t \in {u \in RevisionTables :
                 \A i, j \in DOMAIN u : i < j => u[i].created <= u[j].created}}

Documents ==
    [revisions : RevisionSets, current_revision : {None, 1},
     parent : {None, ParentDoc}]

\* --------------------------------------------------------- sequence helpers
RECURSIVE Reverse(_)
Reverse(s) == IF s = <<>> THEN <<>> ELSE Append(Reverse(Tail(s)), Head(s))

\* (created, id) lexicographic order
KeyLess(a, b) ==
    \/ a.created < b.created
    \/ a.created = b.created /\ a.pk < b.pk

\* .order_by('created', 'id'): the rows in ascending (created, id) order
RECURSIVE order_by_created_id(_)
order_by_created_id(S) ==
    IF S = {} THEN <<>>
    ELSE LET m == CHOOSE x \in S : \A y \in S \ {x} : KeyLess(x, y)
         IN <<m>> \o order_by_created_id(S \ {m})

\* ------------------------------------------------------------ get_previous
\* first_previous with "created <=" for "created <": revisions of one instant
\* link to each other
RECURSIVE first_previous_or_same_instant(_, _, _)
first_previous_or_same_instant(revisions, current_revision, j) ==
    IF j > Len(revisions) THEN None
    ELSE LET previous_revision == revisions[j] IN
         IF (~previous_revision.is_approved
                \/ current_revision.pk = previous_revision.pk)
         THEN first_previous_or_same_instant(revisions, current_revision, j + 1)
         ELSE IF previous_revision.created <= current_revision.created
              THEN previous_revision.pk
              ELSE first_previous_or_same_instant(revisions, current_revision, j + 1)

\* The inner loop of get_previous from position j on: the first revision of
\* the list that is approved, is not current_revision and was created before
\* it; None when the loop runs off the end without a break.
RECURSIVE first_previous(_, _, _)
first_previous(revisions, current_revision, j) ==
    IF j > Len(revisions) THEN None
    ELSE LET previous_revision == revisions[j] IN
         IF (~previous_revision.is_approved
                \/ current_revision.pk = previous_revision.pk)
         THEN first_previous(revisions, current_revision, j + 1)
         ELSE IF previous_revision.created < current_revision.created
              THEN previous_revision.pk
              ELSE first_previous(revisions, current_revision, j + 1)

\* get_previous(revisions): every revision of the list, in the list's order,
\* annotated with the previous_revision the inner loop stops at.
get_previous(revisions) ==
    [i \in 1..Len(revisions) |->
        Annotated(revisions[i], first_previous(revisions, revisions[i], 1))]

\* .transform(get_previous) on a lazy queryset: get_previous runs when the
\* queryset, or a slice of it, is evaluated, on the rows that evaluation
\* fetched (all of them for list(all_revisions), the rows of the page for
\* list(page.object_list))
transform(results) == get_previous(results)

\* all_revisions without .reverse(): the rows stay in ascending order
all_revisions_ascending(doc) ==
    order_by_created_id(doc.revisions)

\* document.revisions.order_by('created', 'id').reverse().transform(get_previous):
\* the queryset, not yet evaluated: the rows in descending (created, id) order
all_revisions(doc) ==
    Reverse(order_by_created_id(doc.revisions))

\* ------------------------------------------------------- the limit parameter
\* Query-string values are sequences of characters, each its Unicode code
\* point: "all" is <<97, 108, 108>>, "\t2" is <<9, 50>>.

\* The code points of the digits zero of the decimal digit ranges (category
\* Nd, Unicode 14): the digits 0..9 of each range follow their zero.
DigitZeros ==
    {48, 1632, 1776, 1984, 2406, 2534, 2662, 2790, 2918, 3046, 3174, 3302,
     3430, 3558, 3664, 3792, 3872, 4160, 4240, 6112, 6160, 6470, 6608, 6784,
     6800, 6992, 7088, 7232, 7248, 42528, 43216, 43264, 43472, 43504, 43600,
     44016, 65296, 66720, 68912, 69734, 69872, 69942, 70096, 70384, 70736,
     70864, 71248, 71360, 71472, 71904, 72016, 72784, 73040, 73120, 92768,
     92864, 93008, 120782, 120792, 120802, 120812, 120822, 123200, 123632,
     125264, 130032}

\* the characters int() reads as a decimal digit
Digits == UNION {z..(z + 9) : z \in DigitZeros}

DigitValue(c) == c - (CHOOSE z \in DigitZeros : z <= c /\ c <= z + 9)

\* the characters int() skips at both ends of the text: \t \n \v \f \r, the
\* space, and the non-ASCII Unicode white space
Whitespace ==
    (9..13) \cup {32, 133, 160, 5760} \cup (8192..8202)
        \cup {8232, 8233, 8239, 8287, 12288}

Signs == {43, 45}          \* + -
Minus == {45}
Underscores == {95}

RECURSIVE Strip(_)
Strip(s) ==
    IF s = <<>> THEN s
    ELSE IF Head(s) \in Whitespace THEN Strip(Tail(s))
    ELSE IF s[Len(s)] \in Whitespace THEN Strip(SubSeq(s, 1, Len(s) - 1))
    ELSE s

\* the value of the digits of s, the underscores between them skipped
RECURSIVE DigitsValue(_, _)
DigitsValue(s, acc) ==
    IF s = <<>> THEN acc
    ELSE IF Head(s) \in Underscores THEN DigitsValue(Tail(s), acc)
    ELSE DigitsValue(Tail(s), 10 * acc + DigitValue(Head(s)))

Unsigned(s) == IF s # <<>> /\ Head(s) \in Signs THEN Tail(s) ELSE s

\* sys.int_info.default_max_str_digits: the most digits int() converts
\* (CPython 3.11 and later, and the patched 3.7 to 3.10)
MaxStrDigits == 4300

\* the digits of s, its underscores not counted, leading zeros counted
DigitCount(s) == Cardinality({i \in 1..Len(s) : s[i] \in Digits})

\* int(text) raises ValueError unless text is, between optional white space,
\* an optional sign and decimal digits, with single underscores allowed
\* between two digits (the int() of Python 3.6 and later), and has no more
\* than MaxStrDigits digits.
RaisesValueError(text) ==
    LET body == Unsigned(Strip(text))
    IN  \/ body = <<>>
        \/ \E i \in 1..Len(body) :
              body[i] \notin Digits /\ body[i] \notin Underscores
        \/ body[1] \in Underscores
        \/ body[Len(body)] \in Underscores
        \/ \E i \in 1..(Len(body) - 1) :
              body[i] \in Underscores /\ body[i + 1] \in Underscores
        \/ DigitCount(body) > MaxStrDigits

IntOf(text) ==
    LET t == Strip(text)
        v == DigitsValue(Unsigned(t), 0)
    IN  IF t # <<>> /\ Head(t) \in Minus THEN 0 - v ELSE v

ALL == <<97, 108, 108>>    \* 'all'

\* request.GET.get('limit', 10): the text of the parameter, or the int 10
get_limit(GET) ==
    IF GET.has_limit THEN [is_str |-> TRUE, text |-> GET.limit, num |-> 0]
    ELSE [is_str |-> FALSE, text |-> <<>>, num |-> DefaultLimit]

\* per_page == 'all'
is_all(per_page) == per_page.is_str /\ per_page.text = ALL

\* try: per_page = int(per_page)  except ValueError: per_page = DOCUMENTS_PER_PAGE
int_per_page(per_page) ==
    IF ~per_page.is_str THEN per_page.num
    ELSE IF RaisesValueError(per_page.text) THEN DOCUMENTS_PER_PAGE
    ELSE IntOf(per_page.text)

\* ---------------------------------------------------------------- paginate
Min(a, b) == IF a < b THEN a ELSE b

\* number of pages of count items at per_page >= 1 items a page (at least 1)
num_pages(count, per_page) ==
    IF count = 0 THEN 1 ELSE (count + per_page - 1) \div per_page

\* paginate(request, queryset, per_page): fixed-size pages, page 1 the first
\* per_page items, and whether a next page exists.
paginate(number, queryset, per_page) ==
    [number      |-> number,
     object_list |-> SubSeq(queryset, (number - 1) * per_page + 1,
                            Min(number * per_page, Len(queryset))),
     has_next    |-> number * per_page < Len(queryset)]

\* a paginated request for per_page < 1 items a page has no pages to cut:
\* paginate() does not return a page
paginate_fails(per_page) == per_page < 1

\* ----------------------------------------------------- the revisions() view
NoPage == [is_none |-> TRUE, number |-> 0, has_next |-> FALSE]

PageOf(p) == [is_none |-> FALSE, number |-> p.number, has_next |-> p.has_next]

\* raise Http404
Http404 ==
    [status |-> 404, reason |-> "", revisions |-> <<>>, page |-> NoPage,
     per_page |-> 0]

\* render(request, '403.html', {'reason': 'revisions_login_required'}, status=403)
Forbidden ==
    [status |-> 403, reason |-> "revisions_login_required", revisions |-> <<>>,
     page |-> NoPage, per_page |-> 0]

\* an exception that escapes the view
ServerError(per_page) ==
    [status |-> 500, reason |-> "", revisions |-> <<>>, page |-> NoPage,
     per_page |-> per_page]

\* render(request, 'wiki/list/revisions.html', context)
render(revs, page, per_page) ==
    [status |-> 200, reason |-> "", revisions |-> revs, page |-> page,
     per_page |-> per_page]

\* attach_parent without the "not page.has_next()" test: every page of a
\* translation gets the foreign revision
attach_parent_every_page(doc, page, revs) ==
    IF doc.parent # None
    THEN LET first_rev_based_on == revs[Len(revs)].based_on
         IN  IF first_rev_based_on # None
             THEN Append(revs, ForeignRevision(first_rev_based_on))
             ELSE revs
    ELSE revs

\* attach_parent reading the first revision of the batch, the newest one
attach_parent_first_of_batch(doc, page, revs) ==
    IF (page.is_none \/ ~page.has_next) /\ doc.parent # None
    THEN LET first_rev_based_on == revs[1].based_on
         IN  IF first_rev_based_on # None
             THEN Append(revs, ForeignRevision(first_rev_based_on))
             ELSE revs
    ELSE revs

\* attach_parent that also ties the translation's first revision to the
\* revision it was translated from
attach_parent_linked(doc, page, revs) ==
    IF (page.is_none \/ ~page.has_next) /\ doc.parent # None
    THEN LET first_rev_based_on == revs[Len(revs)].based_on
         IN  IF first_rev_based_on # None
             THEN Append([revs EXCEPT ![Len(revs)].previous_revision =
                                          first_rev_based_on],
                         ForeignRevision(first_rev_based_on))
             ELSE revs
    ELSE revs

\* the translation-parent append: on the last page or in "all" mode, for a
\* document with a parent, the based_on of the last revision of the batch
attach_parent(doc, page, revs) ==
    IF (page.is_none \/ ~page.has_next) /\ doc.parent # None
    THEN LET first_rev_based_on == revs[Len(revs)].based_on
         IN  IF first_rev_based_on # None
             THEN Append(revs, ForeignRevision(first_rev_based_on))
             ELSE revs
    ELSE revs

\* the not-found test made on the revision collection instead
no_revisions_at_all(doc) == doc.revisions = {}

\* the login gate with its "not" lost
login_required_inverted(is_authenticated, per_page) ==
    is_authenticated /\ is_all(per_page)

\* exists() off by one
exists_more_than_one(queryset) == Len(queryset) > 1

\* if document.current_revision is None
no_current_revision(doc) == doc.current_revision = None

\* if not request.user.is_authenticated() and per_page == 'all'
login_required(is_authenticated, per_page) ==
    ~is_authenticated /\ is_all(per_page)

\* all_revisions.exists()
exists(queryset) == Len(queryset) > 0

\* the pagination window: list(all_revisions) and no page in "all" mode, else
\* list(page.object_list) for the requested page of int(per_page) items; the
\* list() is what evaluates the queryset
window(per_page, number, all) ==
    IF is_all(per_page)
    THEN [page |-> NoPage, revs |-> transform(all), per_page |-> 0]
    ELSE LET n == int_per_page(per_page)
             page == paginate(number, all, n)
         IN  [page |-> PageOf(page), revs |-> transform(page.object_list),
              per_page |-> n]

\* the whole view, for one document and one GET
revisions_view(doc, GET, is_authenticated) ==
    IF no_current_revision(doc) THEN Http404
    ELSE
    LET per_page == get_limit(GET) IN
    IF login_required(is_authenticated, per_page) THEN Forbidden
    ELSE
    LET all == all_revisions(doc) IN
    IF ~exists(all) THEN Http404
    ELSE IF ~is_all(per_page) /\ paginate_fails(int_per_page(per_page))
    THEN ServerError(int_per_page(per_page))
    ELSE
    LET w == window(per_page, GET.page, all)
    IN  render(attach_parent(doc, w.page, w.revs), w.page, w.per_page)

\* ------------------------------------------------------------- the requests
\* 'all', 'x', '0', '-1', '1', and tab, ARABIC-INDIC DIGIT TWO, space
LimitTexts ==
    {ALL, <<120>>, <<48>>, <<45, 49>>, <<49>>, <<9, 1634, 32>>}

NoRequest ==
    [has_limit |-> FALSE, limit |-> <<>>, page |-> 0, is_authenticated |-> FALSE]

NoResponse ==
    [status |-> 0, reason |-> "", revisions |-> <<>>, page |-> NoPage,
     per_page |-> 0]

NoWalk == [live |-> FALSE, pages |-> 0, acc |-> <<>>]

\* the pages a client can ask for: those the paginator has for this request
LastPage(doc, GET) ==
    LET per_page == get_limit(GET)
        n == IF is_all(per_page) THEN 0 ELSE int_per_page(per_page)
    IN  IF n < 1 THEN 1 ELSE num_pages(Cardinality(doc.revisions), n)

Init ==
    /\ document \in Documents
    /\ request = NoRequest
    /\ response = NoResponse
    /\ walk = NoWalk

\* the batches of a listing read page after page from page 1, joined
FirstBatch(GET, resp) ==
    IF resp.status = 200 /\ ~resp.page.is_none /\ GET.page = 1
    THEN [live |-> TRUE, pages |-> 1, acc |-> resp.revisions]
    ELSE NoWalk

\* GET <document>$history?limit=..&page=..: one run of revisions()
Revisions(has_limit, limit, page, is_authenticated) ==
    LET GET == [has_limit |-> has_limit, limit |-> limit, page |-> page,
                is_authenticated |-> is_authenticated]
        resp == revisions_view(document, GET, is_authenticated)
    IN  /\ request = NoRequest
        /\ page \in 1..LastPage(document, GET)
        /\ request' = GET
        /\ response' = resp
        /\ walk' = FirstBatch(GET, resp)
        /\ UNCHANGED document

\* the client follows the "next page" link of the page it was served: the
\* same GET with page + 1, one more run of revisions()
NextPage ==
    LET GET == [request EXCEPT !.page = @ + 1]
        resp == revisions_view(document, GET, GET.is_authenticated)
    IN  /\ response.status = 200
        /\ ~response.page.is_none
        /\ response.page.has_next
        /\ request' = GET
        /\ response' = resp
        /\ walk' = IF walk.live /\ resp.status = 200
                   THEN [live |-> TRUE, pages |-> GET.page,
                         acc |-> walk.acc \o resp.revisions]
                   ELSE NoWalk
        /\ UNCHANGED document

Next ==
    \/ \E is_authenticated \in BOOLEAN, page \in 1..MaxRevs + 1 :
        \/ Revisions(FALSE, <<>>, page, is_authenticated)
        \/ \E limit \in LimitTexts : Revisions(TRUE, limit, page, is_authenticated)
    \/ NextPage

Spec == Init /\ [][Next]_vars

\* ================================================================== claims
Served == request # NoRequest
Ok == response.status = 200
Rows == document.revisions
RowOfPk(pk) == CHOOSE r \in Rows : r.pk = pk

\* the document's own revisions of the served batch, and the foreign ones
OwnBatch == SelectSeq(response.revisions, LAMBDA r : r.pk \notin ForeignPks)
ForeignBatch == SelectSeq(response.revisions, LAMBDA r : r.pk \in ForeignPks)

\* the revisions of the document that may be the previous revision of r
ApprovedPredecessors(r) ==
    {p \in Rows : p.is_approved /\ p.pk # r.pk /\ p.created < r.created}

\* those of them that are in the served batch, the list the linker was given
ServedPredecessors(r) ==
    {p \in ApprovedPredecessors(r) :
        \E i \in 1..Len(OwnBatch) : OwnBatch[i].pk = p.pk}

EarliestOf(C) == CHOOSE x \in C : \A y \in C \ {x} : KeyLess(x, y)
NearestOf(C) == CHOOSE x \in C : \A y \in C \ {x} : KeyLess(y, x)

\* C1 (as claimed): in the revision set the linker was given (the served
\* batch), every revision r is linked to the first approved revision created
\* before it in ASCENDING (created, id) order, the earliest approved
\* predecessor, and to nothing when there is none.
C1_EarliestPredecessor ==
    Ok => \A i \in 1..Len(OwnBatch) :
            LET r == OwnBatch[i]
                C == ServedPredecessors(r)
            IN  r.previous_revision = IF C = {} THEN None ELSE EarliestOf(C).pk

\* C1 (amended): in the revision set the linker was given (the served batch),
\* every revision r is linked to the first approved revision created before
\* it in DESCENDING (created, id) order, the nearest approved predecessor,
\* and to nothing when there is none.
C1_NearestPredecessor ==
    Ok => \A i \in 1..Len(OwnBatch) :
            LET r == OwnBatch[i]
                C == ServedPredecessors(r)
            IN  r.previous_revision = IF C = {} THEN None ELSE NearestOf(C).pk

\* a served revision with several approved predecessors in the batch, linked
\* to the nearest and not to the earliest
C1_Witness ==
    /\ Ok
    /\ \E i \in 1..Len(OwnBatch) :
          LET C == ServedPredecessors(OwnBatch[i])
          IN  /\ Cardinality(C) >= 2
              /\ OwnBatch[i].previous_revision = NearestOf(C).pk
              /\ OwnBatch[i].previous_revision # EarliestOf(C).pk

\* C2: a previous_revision that is set is approved, is another revision and
\* was created strictly earlier; with no approved revision none is set.
C2_PreviousIsApprovedEarlier ==
    Ok => /\ \A i \in 1..Len(response.revisions) :
               LET r == response.revisions[i] IN
               r.previous_revision # None =>
                   /\ r.previous_revision \in {p.pk : p \in Rows}
                   /\ RowOfPk(r.previous_revision).is_approved
                   /\ r.previous_revision # r.pk
                   /\ RowOfPk(r.previous_revision).created < r.created
          /\ (\A p \in Rows : ~p.is_approved) =>
               \A i \in 1..Len(response.revisions) :
                   response.revisions[i].previous_revision = None

\* a served revision that has an approved revision of its own instant and is
\* linked to an earlier one
C2_Witness ==
    /\ Ok
    /\ \E i \in 1..Len(OwnBatch) :
          /\ OwnBatch[i].previous_revision # None
          /\ \E p \in Rows : /\ p.is_approved
                             /\ p.pk # OwnBatch[i].pk
                             /\ p.created = OwnBatch[i].created

\* the full sequence in display order: descending (created, id)
DescRows == Reverse(order_by_created_id(Rows))
PksOf(seq) == [i \in 1..Len(seq) |-> seq[i].pk]
IsAllMode == request.has_limit /\ request.limit = ALL

\* the linker run over the document's full revision set
LinkedOverFullSet == get_previous(DescRows)
FullLink(pk) ==
    (CHOOSE r \in {LinkedOverFullSet[i] : i \in 1..Len(LinkedOverFullSet)} :
        r.pk = pk).previous_revision

\* C3: on every page, for every page size, and in "all" mode, the annotation of
\* a served revision is the one the linker computes over the full revision set.
C3_LinkedBeforeWindow ==
    Ok => \A i \in 1..Len(OwnBatch) :
            OwnBatch[i].previous_revision = FullLink(OwnBatch[i].pk)

\* C4 (as claimed): an unauthenticated "all" request always ends in the 403
\* with reason revisions_login_required and no revisions.
C4_AlwaysForbidden ==
    (Served /\ IsAllMode /\ ~request.is_authenticated) => response = Forbidden

\* C4 (amended): an unauthenticated "all" request on a document that has a
\* current revision ends in that 403, whatever the revision count; without a
\* current revision it ends in the 404; no revision is returned either way.
C4_ForbiddenWhenCurrent ==
    (Served /\ IsAllMode /\ ~request.is_authenticated) =>
        /\ response.revisions = <<>>
        /\ document.current_revision # None => response = Forbidden
        /\ document.current_revision = None => response = Http404

\* the 403 for documents with no revision and with MaxRevs revisions
C4_Witness ==
    /\ Served /\ IsAllMode /\ ~request.is_authenticated
    /\ response.status = 403
    /\ response.reason = "revisions_login_required"
    /\ Cardinality(Rows) \in {0, MaxRevs}

\* C5: without a current revision every request ends in the 404, whatever the
\* revisions, the limit, the page and the login are, and returns nothing.
C5_NoCurrentRevisionNotFound ==
    (Served /\ document.current_revision = None) => response = Http404

\* the 404 for an unauthenticated "all" request on a document with revisions
C5_Witness ==
    /\ Served /\ document.current_revision = None
    /\ response.status = 404
    /\ Rows # {}
    /\ IsAllMode /\ ~request.is_authenticated

\* the page slice the request asks for, by pk
ExpectedSlice ==
    IF response.page.is_none THEN PksOf(DescRows)
    ELSE SubSeq(PksOf(DescRows),
                (response.page.number - 1) * response.per_page + 1,
                Min(response.page.number * response.per_page, Len(DescRows)))

AppendDue ==
    /\ response.page.is_none \/ ~response.page.has_next
    /\ document.parent # None
    /\ EarliestOf(Rows).based_on # None

\* C6: a served batch is the page slice, followed by the based_on of the
\* earliest revision of the full sequence exactly when the page is the last
\* one (or "all" mode), the document has a parent and that based_on is set.
C6_ForeignAppendedIff ==
    Ok => /\ PksOf(OwnBatch) = ExpectedSlice
          /\ response.revisions = OwnBatch \o ForeignBatch
          /\ response.page.is_none <=> IsAllMode
          /\ Len(ForeignBatch) = IF AppendDue THEN 1 ELSE 0
          /\ AppendDue => ForeignBatch[1].pk = EarliestOf(Rows).based_on

\* the last of several pages of a translation, with the foreign revision
C6_Witness ==
    /\ Ok
    /\ response.page.number >= 2
    /\ ~response.page.has_next
    /\ Len(ForeignBatch) = 1
    /\ \E r \in Rows : r.based_on = None

\* C7: reading the pages of a listing from page 1 to the page without a next
\* page gives the full descending sequence once, then the foreign revision if
\* one is due; has_next is true on every page but the last.
C7_PagesConcatenate ==
    walk.live =>
        /\ response.page.has_next <=>
               walk.pages < num_pages(Cardinality(Rows), response.per_page)
        /\ ~response.page.has_next =>
               PksOf(walk.acc) =
                   PksOf(DescRows) \o
                   (IF document.parent # None /\ EarliestOf(Rows).based_on # None
                    THEN <<EarliestOf(Rows).based_on>> ELSE <<>>)

\* a listing of several pages read to its end, the foreign revision last
C7_Witness ==
    /\ walk.live
    /\ walk.pages >= 2
    /\ ~response.page.has_next
    /\ walk.acc[Len(walk.acc)].pk \in ForeignPks

\* the limit text stands for a positive integer
ParsesAsPositive(text) == ~RaisesValueError(text) /\ IntOf(text) >= 1

\* C8: outside "all" mode the page size is the positive integer the limit
\* stands for, and the one default when the limit is absent or does not parse
\* as one; the request is served as a page, without an error.
C8_PositiveOrDefault ==
    (Served /\ document.current_revision # None /\ Rows # {} /\ ~IsAllMode) =>
        /\ response.status = 200
        /\ ~response.page.is_none
        /\ response.per_page =
              IF request.has_limit /\ ParsesAsPositive(request.limit)
              THEN IntOf(request.limit) ELSE DefaultLimit

\* C9: with a current revision and the login gate passed, no revisions end in
\* the 404 and some revisions never do.
C9_EmptyIsNotFound ==
    (Served /\ document.current_revision # None
            /\ ~(IsAllMode /\ ~request.is_authenticated)) =>
        /\ Rows = {} => response = Http404
        /\ Rows # {} => response.status # 404

\* the 404 of an authenticated "all" request on a document without revisions
C9_Witness ==
    /\ Served /\ document.current_revision # None
    /\ IsAllMode /\ request.is_authenticated
    /\ Rows = {}
    /\ response.status = 404

\* what a served batch may differ in from the stored rows
FrameOk ==
    \A i \in 1..Len(response.revisions) :
        LET r == response.revisions[i] IN
        /\ r.previous_revision \notin ForeignPks
        /\ IF r.pk \in ForeignPks
           THEN r.previous_revision = None
           ELSE \E row \in Rows : r = Annotated(row, r.previous_revision)

\* C10: a request leaves the document and its rows as they were; the served
\* revisions are the stored rows plus the previous_revision annotation; the
\* foreign revision has no annotation and is nobody's previous revision.
C10_OnlyAnnotationAdded ==
    [][document' = document /\ FrameOk']_vars

\* a batch with linked revisions and the foreign revision
C10_Witness ==
    /\ Ok
    /\ Len(ForeignBatch) = 1
    /\ \E i \in 1..Len(OwnBatch) : OwnBatch[i].previous_revision # None

====
